---- MODULE Spec2Model ----
(***************************************************************************)
(* Model of atop_parser_mem.py: the line parser parse_atop_log, the        *)
(* directory aggregator parse_atop_directory, generate_report and the      *)
(* __main__ driver.                                                        *)
(*                                                                         *)
(* A line of text is modelled by the regular expression it matches and the *)
(* text of its captured groups (sequences of characters); float() and      *)
(* datetime.strptime() are computed on those characters.  Floats are exact *)
(* rationals <<numerator, denominator>> in lowest terms.                   *)
(***************************************************************************)
EXTENDS Integers, Sequences, FiniteSets, TLC

VARIABLES pc, mode, lines, current_timestamp, mem, data, exc,
          nfiles, entries, all_data, result, outputs

vars == <<pc, mode, lines, current_timestamp, mem, data, exc,
          nfiles, entries, all_data, result, outputs>>

\* ------------------------------------------------------------------ bounds
MaxLines == 4
MaxDirLines == 3
MaxFiles == 2

\* ------------------------------------------------------- values and helpers
None == <<>>

Digits == <<"0", "1", "2", "3", "4", "5", "6", "7", "8", "9">>

DigitVal(c) == (CHOOSE i \in 1..10 : Digits[i] = c) - 1

RECURSIVE DigitsToInt(_)
DigitsToInt(s) ==
    IF s = <<>> THEN 0
    ELSE DigitsToInt(SubSeq(s, 1, Len(s) - 1)) * 10 + DigitVal(s[Len(s)])

RECURSIVE GCD(_, _)
GCD(a, b) == IF b = 0 THEN a ELSE GCD(b, a % b)

Norm(q) ==
    IF q[1] = 0 THEN <<0, 1>>
    ELSE LET g == GCD(q[1], q[2]) IN <<q[1] \div g, q[2] \div g>>

RECURSIVE Pow10(_)
Pow10(k) == IF k = 0 THEN 1 ELSE 10 * Pow10(k - 1)

Dots(tok) == {i \in 1..Len(tok) : tok[i] = "."}

\* float(s) accepts a [\d.]+ capture iff it has at most one point and a digit
IsFloatLiteral(tok) ==
    /\ Cardinality(Dots(tok)) <= 1
    /\ Len(tok) > Cardinality(Dots(tok))

Float(tok) ==
    LET nodot == SelectSeq(tok, LAMBDA c : c # ".")
        frac  == IF Dots(tok) = {} THEN 0
                 ELSE Len(tok) - (CHOOSE i \in Dots(tok) : TRUE)
    IN  Norm(<<DigitsToInt(nodot), Pow10(frac)>>)

ToGiB_NoDivide(x, unit) == x

\* "if unit == 'M': value /= 1024"
ToGiB(x, unit) == IF unit = "M" THEN Norm(<<x[1], x[2] * 1024>>) ELSE x

IsLeap(y) == (y % 4 = 0 /\ y % 100 # 0) \/ y % 400 = 0

DaysIn(y, m) ==
    IF m = 2 THEN (IF IsLeap(y) THEN 29 ELSE 28)
    ELSE IF m \in {4, 6, 9, 11} THEN 30 ELSE 31

TsFields(line) ==
    <<DigitsToInt(line.y), DigitsToInt(line.mo), DigitsToInt(line.d),
      DigitsToInt(line.hh), DigitsToInt(line.mi), DigitsToInt(line.ss)>>

\* datetime.strptime(s, "%Y/%m/%d %H:%M:%S") raises ValueError unless the
\* fields form a calendar date and a time of day
StrptimeOk(line) ==
    LET f == TsFields(line) IN
    /\ f[1] >= 1
    /\ f[2] \in 1..12
    /\ f[3] >= 1 /\ f[3] <= DaysIn(f[1], f[2])
    /\ f[4] <= 23
    /\ f[5] <= 59
    /\ f[6] <= 59

Strptime(line) == TsFields(line)

RECURSIVE LexLess(_, _)
LexLess(a, b) ==
    IF a = <<>> \/ b = <<>> THEN FALSE
    ELSE IF a[1] # b[1] THEN a[1] < b[1]
    ELSE LexLess(Tail(a), Tail(b))

\* ------------------------------------------------------------ line alphabet
TsLine(mo, hh) ==
    [kind |-> "ts", y |-> <<"2", "0", "2", "4">>, mo |-> mo, d |-> <<"0", "1">>,
     hh |-> hh, mi |-> <<"0", "0">>, ss |-> <<"0", "0">>]

ValLine(k, t, tu, f, fu) ==
    [kind |-> k, tot |-> t, tot_unit |-> tu, free |-> f, free_unit |-> fu]

OtherLine == [kind |-> "other"]

T1   == TsLine(<<"0", "1">>, <<"0", "0">>)
T2   == TsLine(<<"0", "1">>, <<"2", "3">>)
TBadMonth == TsLine(<<"1", "3">>, <<"0", "0">>)
TBadHour  == TsLine(<<"0", "1">>, <<"9", "9">>)

MemA == ValLine("mem", <<"2">>, "G", <<"1", ".", "5">>, "G")
MemB == ValLine("mem", <<"4", "0", "9", "6">>, "M", <<"1", ".", "5">>, "G")
MemBad == ValLine("mem", <<"1", ".", "2", ".", "3">>, "G", <<"1">>, "G")

SwpA == ValLine("swp", <<"2", "0", "4", "8">>, "M", <<"5", "1", "2">>, "M")
SwpB == ValLine("swp", <<"4">>, "G", <<"5", "1", "2">>, "M")
SwpBad == ValLine("swp", <<"1">>, "G", <<".">>, "M")

Lines == {T1, T2, TBadMonth, TBadHour, MemA, MemB, MemBad,
          SwpA, SwpB, SwpBad, OtherLine}

DirLines == {T1, T2, MemA, MemBad, SwpA, SwpB}

\* ------------------------------------------------------------ parse_atop_log
NewParse == [ts |-> None, mem |-> None, data |-> <<>>, exc |-> "none"]

TimestampLine_ClearsMem(st, line) ==
    IF StrptimeOk(line)
    THEN [st EXCEPT !.ts = Strptime(line), !.mem = None]
    ELSE [st EXCEPT !.exc = "ValueError"]

\* lines 19-22: current_timestamp = strptime(...); continue
TimestampLine(st, line) ==
    IF StrptimeOk(line)
    THEN [st EXCEPT !.ts = Strptime(line)]
    ELSE [st EXCEPT !.exc = "ValueError"]

MemLine_NoTimestampCheck(st, line) ==
    IF ~IsFloatLiteral(line.tot) \/ ~IsFloatLiteral(line.free)
    THEN [st EXCEPT !.exc = "ValueError"]
    ELSE [st EXCEPT !.mem = <<ToGiB(Float(line.tot), line.tot_unit),
                              ToGiB(Float(line.free), line.free_unit)>>]

MemLine_KeepsFirst(st, line) ==
    IF st.ts = None \/ st.mem # None THEN st
    ELSE IF ~IsFloatLiteral(line.tot) \/ ~IsFloatLiteral(line.free)
    THEN [st EXCEPT !.exc = "ValueError"]
    ELSE [st EXCEPT !.mem = <<ToGiB(Float(line.tot), line.tot_unit),
                              ToGiB(Float(line.free), line.free_unit)>>]

\* lines 25-32: "if mem_match and current_timestamp": mem_tot, mem_free
MemLine(st, line) ==
    IF st.ts = None THEN st
    ELSE IF ~IsFloatLiteral(line.tot) \/ ~IsFloatLiteral(line.free)
    THEN [st EXCEPT !.exc = "ValueError"]
    ELSE [st EXCEPT !.mem = <<ToGiB(Float(line.tot), line.tot_unit),
                              ToGiB(Float(line.free), line.free_unit)>>]

Sample(ts, m, swp_tot, swp_free) ==
    [timestamp |-> ts, mem_tot |-> m[1], mem_free |-> m[2],
     swp_tot |-> swp_tot, swp_free |-> swp_free]

SwpLine_ClearsMem(st, line) ==
    IF st.ts = None \/ st.mem = None THEN st
    ELSE IF ~IsFloatLiteral(line.tot) \/ ~IsFloatLiteral(line.free)
    THEN [st EXCEPT !.exc = "ValueError"]
    ELSE [st EXCEPT !.mem = None,
                    !.data = Append(@, Sample(st.ts, st.mem,
                                 ToGiB(Float(line.tot), line.tot_unit),
                                 ToGiB(Float(line.free), line.free_unit)))]

\* lines 35-51: "if swp_match and current_timestamp and 'mem_tot' in locals()"
SwpLine(st, line) ==
    IF st.ts = None \/ st.mem = None THEN st
    ELSE IF ~IsFloatLiteral(line.tot) \/ ~IsFloatLiteral(line.free)
    THEN [st EXCEPT !.exc = "ValueError"]
    ELSE [st EXCEPT !.data = Append(@, Sample(st.ts, st.mem,
                                 ToGiB(Float(line.tot), line.tot_unit),
                                 ToGiB(Float(line.free), line.free_unit)))]

\* one iteration of "for line in file"
ParseLine(st, line) ==
    CASE line.kind = "ts"  -> TimestampLine(st, line)
      [] line.kind = "mem" -> MemLine(st, line)
      [] line.kind = "swp" -> SwpLine(st, line)
      [] OTHER             -> st

\* parse_atop_log on a whole file: the loop stops at the first exception
RECURSIVE ParseFrom(_, _)
ParseFrom(st, ls) ==
    IF ls = <<>> \/ st.exc # "none" THEN st
    ELSE ParseFrom(ParseLine(st, Head(ls)), Tail(ls))

ParseFile(ls) == ParseFrom(NewParse, ls)

\* ------------------------------------------------------ parse_atop_directory
RECURSIVE Concat(_)
Concat(dfs) == IF dfs = <<>> THEN <<>> ELSE Head(dfs) \o Concat(Tail(dfs))

IsSortedByTimestamp(df) ==
    \A i \in 1..Len(df) - 1 : ~LexLess(df[i + 1].timestamp, df[i].timestamp)

Reorderings(df) ==
    {[i \in 1..Len(df) |-> df[f[i]]] : f \in Permutations(1..Len(df))}

SortValues_NoSort(df) == {df}

\* merged_data.sort_values('timestamp'): the default kind is quicksort, which
\* is not stable, so any ordering by timestamp is a possible result
SortValues(df) == {p \in Reorderings(df) : IsSortedByTimestamp(p)}

ExceptionClasses == {"FileNotFoundError", "PermissionError", "ValueError", "OSError"}

DirCatches_OnlyNotFound(e) == e = "FileNotFoundError"

\* line 81: "except Exception as e" inside the per-file loop
DirCatches(e) == e \in ExceptionClasses

MainCatches_OnlyNotFound(e) == e = "FileNotFoundError"

\* lines 206-209: "except FileNotFoundError" / "except Exception"
MainCatches(e) == e = "FileNotFoundError" \/ e \in ExceptionClasses

\* where control goes when e is raised inside the try block of __main__
Raised(e) == IF MainCatches(e) THEN "done" ELSE "crashed"

Empty_Never(df) == FALSE

\* DataFrame.empty
Empty(df) == df = <<>>

\* ------------------------------------------------------------------- state
Init ==
    /\ pc = "main"
    /\ mode = "none"
    /\ lines = <<>>
    /\ current_timestamp = None
    /\ mem = None
    /\ data = <<>>
    /\ exc = "none"
    /\ nfiles = 0
    /\ entries = <<>>
    /\ all_data = <<>>
    /\ result = <<>>
    /\ outputs = {}

Locals == [ts |-> current_timestamp, mem |-> mem, data |-> data, exc |-> "none"]

ResetLocals ==
    /\ lines' = <<>>
    /\ current_timestamp' = None
    /\ mem' = None
    /\ data' = <<>>

Failed == [ok |-> FALSE, data |-> <<>>]

\* __main__ with --log_file: parse_atop_log(args.log_file) opens the file
MainLogFile ==
    /\ pc = "main"
    /\ mode' = "file"
    /\ \E e \in {"none", "FileNotFoundError", "PermissionError"} :
          IF e = "none"
          THEN /\ pc' = "parse"
               /\ exc' = exc
          ELSE /\ pc' = Raised(e)
               /\ exc' = e
    /\ UNCHANGED <<lines, current_timestamp, mem, data, nfiles, entries,
                   all_data, result, outputs>>

\* __main__ with --dir: parse_atop_directory up to the per-file loop
MainDir ==
    /\ pc = "main"
    /\ mode' = "dir"
    /\ \E is_dir \in BOOLEAN, n \in 0..MaxFiles :
          IF ~is_dir
          THEN /\ n = 0
               /\ pc' = Raised("FileNotFoundError")
               /\ exc' = "FileNotFoundError"
               /\ nfiles' = nfiles
          ELSE /\ nfiles' = n
               /\ exc' = exc
               /\ pc' = IF n = 0 THEN "check" ELSE "dir_loop"
    /\ UNCHANGED <<lines, current_timestamp, mem, data, entries, all_data,
                   result, outputs>>

\* "for file_path in files: try: parse_atop_log(file_path)": the open
DirNextEntry ==
    /\ pc = "dir_loop"
    /\ Len(entries) < nfiles
    /\ \E e \in {"none", "PermissionError"} :
          IF e = "none"
          THEN /\ pc' = "parse"
               /\ UNCHANGED <<entries, exc>>
          ELSE IF DirCatches(e)
          THEN /\ entries' = Append(entries, Failed)
               /\ UNCHANGED <<pc, exc>>
          ELSE /\ pc' = Raised(e)
               /\ exc' = e
               /\ UNCHANGED entries
    /\ ResetLocals
    /\ UNCHANGED <<mode, nfiles, all_data, result, outputs>>

\* one iteration of "for line in file" on the next line of the open file
ReadLine ==
    /\ pc = "parse"
    /\ Len(lines) < (IF mode = "file" THEN MaxLines ELSE MaxDirLines)
    /\ \E line \in (IF mode = "file" THEN Lines ELSE DirLines) :
          LET st == ParseLine(Locals, line) IN
          IF st.exc = "none"
          THEN /\ lines' = Append(lines, line)
               /\ current_timestamp' = st.ts
               /\ mem' = st.mem
               /\ data' = st.data
               /\ UNCHANGED <<pc, exc, entries>>
          ELSE IF mode = "dir" /\ DirCatches(st.exc)
          THEN /\ lines' = Append(lines, line)
               /\ entries' = Append(entries, Failed)
               /\ pc' = "dir_loop"
               /\ UNCHANGED <<current_timestamp, mem, data, exc>>
          ELSE /\ lines' = Append(lines, line)
               /\ pc' = Raised(st.exc)
               /\ exc' = st.exc
               /\ UNCHANGED <<current_timestamp, mem, data, entries>>
    /\ UNCHANGED <<mode, nfiles, all_data, result, outputs>>

\* end of file: "return pd.DataFrame(data)" and what the caller does with it
EndOfFile ==
    /\ pc = "parse"
    /\ IF mode = "file"
       THEN /\ result' = data
            /\ pc' = "check"
            /\ UNCHANGED <<lines, current_timestamp, mem, data, entries, all_data>>
       ELSE /\ entries' = Append(entries, [ok |-> TRUE, data |-> ParseFile(lines).data])
            /\ all_data' = IF ~Empty(data) THEN Append(all_data, data) ELSE all_data
            /\ pc' = "dir_loop"
            /\ ResetLocals
            /\ UNCHANGED result
    /\ UNCHANGED <<mode, exc, nfiles, outputs>>

\* lines 84-95: after the loop, concat, sort_values and return
DirReturn ==
    /\ pc = "dir_loop"
    /\ Len(entries) = nfiles
    /\ IF all_data = <<>>
       THEN result' = <<>>
       ELSE \E sorted \in SortValues(Concat(all_data)) : result' = sorted
    /\ pc' = "check"
    /\ UNCHANGED <<mode, lines, current_timestamp, mem, data, exc, nfiles,
                   entries, all_data, outputs>>

\* lines 201-205: "if not data.empty: generate_report(...)"
MainCheck ==
    /\ pc = "check"
    /\ pc' = IF ~Empty(result) THEN "report" ELSE "done"
    /\ UNCHANGED <<mode, lines, current_timestamp, mem, data, exc, nfiles,
                   entries, all_data, result, outputs>>

Write(file, next) ==
    /\ \E ok \in BOOLEAN :
          IF ok
          THEN /\ outputs' = outputs \cup {file}
               /\ pc' = next
               /\ exc' = exc
          ELSE /\ outputs' = outputs
               /\ pc' = Raised("OSError")
               /\ exc' = "OSError"
    /\ UNCHANGED <<mode, lines, current_timestamp, mem, data, nfiles,
                   entries, all_data, result>>

\* lines 99-105: "if data.empty: return", then data.to_csv
ReportCsv ==
    /\ pc = "report"
    /\ IF Empty(result)
       THEN /\ pc' = "done"
            /\ UNCHANGED <<mode, lines, current_timestamp, mem, data, exc,
                           nfiles, entries, all_data, result, outputs>>
       ELSE Write("csv", "png")

\* lines 109-128: plt.savefig, then "if generate_html"
ReportPng ==
    /\ pc = "png"
    /\ \E generate_html \in BOOLEAN :
          Write("png", IF generate_html THEN "html" ELSE "done")

\* lines 129-175: fig.write_html
ReportHtml == pc = "html" /\ Write("html", "done")

Next ==
    \/ MainLogFile
    \/ MainDir
    \/ DirNextEntry
    \/ ReadLine
    \/ EndOfFile
    \/ DirReturn
    \/ MainCheck
    \/ ReportCsv
    \/ ReportPng
    \/ ReportHtml

Spec == Init /\ [][Next]_vars

\* ============================================================== properties
Matching(ls) == SelectSeq(ls, LAMBDA l : l.kind # "other")

ValidTs(l) == l.kind = "ts" /\ StrptimeOk(l)

ValidVal(l, k) == l.kind = k /\ IsFloatLiteral(l.tot) /\ IsFloatLiteral(l.free)

\* v is the text tok read as a number, divided by 1024 iff its unit is M
InGiB(v, tok, unit) ==
    LET x == Float(tok) IN
    IF unit = "M" THEN v[1] * x[2] * 1024 = x[1] * v[2]
    ELSE IF unit = "G" THEN v[1] * x[2] = x[1] * v[2]
    ELSE FALSE

MemFrom(s, l) ==
    /\ InGiB(s.mem_tot, l.tot, l.tot_unit)
    /\ InGiB(s.mem_free, l.free, l.free_unit)

SwpFrom(s, l) ==
    /\ InGiB(s.swp_tot, l.tot, l.tot_unit)
    /\ InGiB(s.swp_free, l.free, l.free_unit)

Range(q) == {q[i] : i \in 1..Len(q)}

Count(x, q) == Cardinality({i \in 1..Len(q) : q[i] = x})

IsPermutation(a, b) ==
    /\ Len(a) = Len(b)
    /\ \A x \in Range(a) \cup Range(b) : Count(x, a) = Count(x, b)

\* the concatenation of the results of the successfully parsed files
RECURSIVE ConcatOk(_)
ConcatOk(es) ==
    IF es = <<>> THEN <<>>
    ELSE (IF Head(es).ok THEN Head(es).data ELSE <<>>) \o ConcatOk(Tail(es))

Expected == ConcatOk(entries)

RECURSIVE InsertAfterEqual(_, _)
InsertAfterEqual(q, x) ==
    IF q = <<>> THEN <<x>>
    ELSE IF LexLess(x.timestamp, Head(q).timestamp) THEN <<x>> \o q
    ELSE <<Head(q)>> \o InsertAfterEqual(Tail(q), x)

RECURSIVE StableSort(_)
StableSort(q) ==
    IF q = <<>> THEN <<>>
    ELSE InsertAfterEqual(StableSort(SubSeq(q, 1, Len(q) - 1)), q[Len(q)])

DirReturned == mode = "dir" /\ pc = "check"

\* C1: a file whose matching lines are a valid timestamp line, a valid memory
\* line and a valid swap line, in this order, yields exactly one Sample, with
\* that timestamp and the four values in GiB (divided by 1024 iff tagged M).
C1_TripleYieldsOneSample ==
    (mode = "file" /\ pc = "check") =>
        LET m == Matching(lines) IN
        (Len(m) = 3 /\ ValidTs(m[1]) /\ ValidVal(m[2], "mem") /\ ValidVal(m[3], "swp"))
        => /\ Len(result) = 1
           /\ result[1].timestamp = TsFields(m[1])
           /\ MemFrom(result[1], m[2])
           /\ SwpFrom(result[1], m[3])

C1_Witness ==
    /\ mode = "file" /\ pc = "check"
    /\ Len(lines) = 4 /\ Len(Matching(lines)) = 3
    /\ ValidTs(Matching(lines)[1])
    /\ ValidVal(Matching(lines)[2], "mem") /\ Matching(lines)[2].tot_unit = "M"
    /\ Matching(lines)[2].free_unit = "G"
    /\ ValidVal(Matching(lines)[3], "swp") /\ Matching(lines)[3].tot_unit = "G"
    /\ Len(result) = 1

SeenTs(ls) == \E i \in 1..Len(ls) : ls[i].kind = "ts"

MemAfterTs(ls) ==
    \E i, j \in 1..Len(ls) : i < j /\ ls[i].kind = "ts" /\ ls[j].kind = "mem"

\* C2: a swap line emits a Sample only if a timestamp line and, after it, a
\* memory line came earlier in the file; otherwise the swap line emits
\* nothing, raises nothing and leaves the parse state unchanged.
C2_SwapNeedsTimestampAndMemory ==
    [][\A l \in Lines :
         (pc = "parse" /\ lines' = Append(lines, l)) =>
            /\ (l.kind = "swp" /\ ~(SeenTs(lines) /\ MemAfterTs(lines)))
                 => /\ data' = data
                    /\ current_timestamp' = current_timestamp
                    /\ mem' = mem
                    /\ pc' = "parse"
                    /\ exc' = exc
                    /\ entries' = entries
            /\ data' # data => (l.kind = "swp" /\ SeenTs(lines) /\ MemAfterTs(lines))
      ]_vars

C2_Witness ==
    /\ pc = "parse"
    /\ Len(lines) = 3
    /\ lines[1].kind = "mem" /\ lines[2].kind = "ts" /\ lines[3].kind = "swp"
    /\ data = <<>>

\* C3: no sequence of lines makes parse_atop_log raise: every line is used or
\* skipped and the parse runs to the end of the file.
C3_NeverRaisesOnALine ==
    /\ ParseFile(lines).exc = "none"
    /\ exc # "ValueError"

\* C4: the sequence parse_atop_directory returns is in non-decreasing
\* timestamp order and holds exactly the Samples of the concatenation of the
\* results of the successfully parsed files.
C4_SortedPermutation ==
    DirReturned =>
        /\ IsSortedByTimestamp(result)
        /\ IsPermutation(result, Expected)

C4_Witness ==
    /\ DirReturned
    /\ Len(result) >= 2
    /\ ~IsSortedByTimestamp(Expected)
    /\ result # Expected

\* C5 as stated: the returned sequence is the stable sort of the
\* concatenation (ties keep their order of concatenation).
C5_StableSort == DirReturned => result = StableSort(Expected)

DistinctTimestamps(q) ==
    \A i, j \in 1..Len(q) : i # j => q[i].timestamp # q[j].timestamp

AtTimestamp(q, t) == SelectSeq(q, LAMBDA x : x.timestamp = t)

\* C5 amended: Samples with equal timestamps are returned as one group holding
\* the same Samples as in the concatenation, in any relative order; when no
\* two Samples share a timestamp the result is the stable sort.
C5_TiesInAnyOrder ==
    DirReturned =>
        /\ \A t \in {x.timestamp : x \in Range(Expected) \cup Range(result)} :
              IsPermutation(AtTimestamp(result, t), AtTimestamp(Expected, t))
        /\ DistinctTimestamps(Expected) => result = StableSort(Expected)

C5_Witness ==
    /\ DirReturned
    /\ ~DistinctTimestamps(Expected)
    /\ result # StableSort(Expected)

\* C6: a failing directory entry is reported and skipped: the call does not
\* raise, every entry is attempted and every Sample of every successfully
\* parsed file is in the returned result.
C6_BadFileDoesNotAbort ==
    /\ mode = "dir" => exc \notin {"ValueError", "PermissionError"}
    /\ DirReturned =>
          /\ Len(entries) = nfiles
          /\ \A i \in 1..Len(entries) :
                entries[i].ok =>
                   \A x \in Range(entries[i].data) :
                      Count(x, result) >= Count(x, entries[i].data)

C6_Witness ==
    /\ DirReturned
    /\ Len(entries) = 2
    /\ ~entries[1].ok
    /\ entries[2].ok /\ entries[2].data # <<>>
    /\ result = entries[2].data

ParseCompleted ==
    IF mode = "file"
    THEN ParseFile(lines).exc = "none" /\ result = ParseFile(lines).data
    ELSE mode = "dir" /\ Len(entries) = nfiles /\ IsPermutation(result, Expected)

NoSamplesOrNoInput ==
    \/ exc = "FileNotFoundError"
    \/ mode = "file" /\ ParseFile(lines).data = <<>>
    \/ mode = "dir" /\ Expected = <<>>

\* C7: an output file is written only after the parse has completed without
\* a propagated error and with a non-empty result; with no Samples or a
\* missing input nothing is written and the process ends without an
\* uncaught error.
C7_OutputsOnlyAfterNonEmptyParse ==
    /\ outputs # {} => (ParseCompleted /\ result # <<>>)
    /\ NoSamplesOrNoInput => (outputs = {} /\ pc # "crashed")

C7_Witness ==
    /\ pc = "done"
    /\ mode = "file"
    /\ exc = "none"
    /\ \E i \in 1..Len(lines) : lines[i].kind = "swp"
    /\ result = <<>>
    /\ outputs = {}

\* C8: the memory fragment is not cleared by an emission: a timestamp line,
\* one memory line and then k consecutive valid swap lines emit exactly k
\* Samples, with the same timestamp and memory values and each with the swap
\* values of its own line.
C8_ConsecutiveSwapsReuseMemory ==
    \A k \in 1..Len(lines) :
        LET n == Len(lines) IN
        ( /\ n >= k + 2
          /\ ValidTs(lines[n - k - 1])
          /\ ValidVal(lines[n - k], "mem")
          /\ \A i \in (n - k + 1)..n : ValidVal(lines[i], "swp") )
        => /\ Len(data) = Len(ParseFile(SubSeq(lines, 1, n - k)).data) + k
           /\ \A j \in 1..k :
                 LET s == data[Len(data) - k + j] IN
                 /\ s.timestamp = TsFields(lines[n - k - 1])
                 /\ MemFrom(s, lines[n - k])
                 /\ SwpFrom(s, lines[n - k + j])

C8_Witness ==
    /\ pc = "parse"
    /\ Len(lines) = 4
    /\ ValidTs(lines[1]) /\ ValidVal(lines[2], "mem")
    /\ ValidVal(lines[3], "swp") /\ ValidVal(lines[4], "swp")
    /\ lines[3] # lines[4]
    /\ Len(data) = 2
    /\ data[1].mem_tot = data[2].mem_tot
    /\ data[1].swp_tot # data[2].swp_tot

LastTs(ls) == CHOOSE i \in 1..Len(ls) :
    ls[i].kind = "ts" /\ \A j \in (i + 1)..Len(ls) : ls[j].kind # "ts"

\* the most recent memory line that has a timestamp line before it
LastMemUnderTs(ls) == CHOOSE j \in 1..Len(ls) :
    /\ ls[j].kind = "mem" /\ \E i \in 1..(j - 1) : ls[i].kind = "ts"
    /\ \A k \in (j + 1)..Len(ls) : ls[k].kind # "mem"

\* C9: every emitted Sample carries the timestamp of the most recent
\* timestamp line and the memory values of the most recent memory line read
\* while a timestamp was set; an earlier memory line is overwritten.
C9_LatestTimestampAndMemory ==
    [][\A l \in Lines :
         (pc = "parse" /\ lines' = Append(lines, l) /\ data' # data) =>
            /\ Len(data') = Len(data) + 1
            /\ SubSeq(data', 1, Len(data)) = data
            /\ SeenTs(lines) /\ MemAfterTs(lines)
            /\ LET s == data'[Len(data')] IN
               /\ s.timestamp = TsFields(lines[LastTs(lines)])
               /\ MemFrom(s, lines[LastMemUnderTs(lines)])
               /\ SwpFrom(s, l)
      ]_vars

C9_Witness ==
    /\ pc = "parse"
    /\ Len(lines) = 4
    /\ lines[1].kind = "ts" /\ lines[2].kind = "mem" /\ lines[3].kind = "mem"
    /\ lines[4].kind = "swp"
    /\ Len(data) = 1
    /\ MemFrom(data[1], lines[3])
    /\ ~MemFrom(data[1], lines[2])

\* C10: a timestamp line does not clear the memory fragment: timestamp T1,
\* memory line M, timestamp T2, swap line S emit exactly one Sample, which
\* pairs T2 with the memory values of M.
C10_TimestampKeepsMemory ==
    LET m == Matching(lines) IN
    ( /\ Len(m) = 4
      /\ ValidTs(m[1]) /\ ValidVal(m[2], "mem")
      /\ ValidTs(m[3]) /\ ValidVal(m[4], "swp") )
    => /\ Len(data) = 1
       /\ data[1].timestamp = TsFields(m[3])
       /\ MemFrom(data[1], m[2])
       /\ SwpFrom(data[1], m[4])

C10_Witness ==
    /\ pc = "parse"
    /\ Len(lines) = 4
    /\ ValidTs(lines[1]) /\ ValidVal(lines[2], "mem")
    /\ ValidTs(lines[3]) /\ ValidVal(lines[4], "swp")
    /\ lines[1] # lines[3]
    /\ Len(data) = 1
    /\ data[1].timestamp = TsFields(lines[3])
    /\ data[1].timestamp # TsFields(lines[1])

====
